---- MODULE Spec2Model ----
(***************************************************************************)
(* Model of the Amazon.eg crawler (crawlir.py): the retrying GET of the    *)
(* pooled session, the listing/detail merge, the CSV sink and the page     *)
(* loop of crawl_amazon_to_csv with its worker pool.                       *)
(***************************************************************************)
EXTENDS Integers, Sequences, FiniteSets, TLC

\* ---------------------------------------------------------------- bounds
MaxPages == 2        \* largest page limit / number of result pages the server holds
MaxItems == 2        \* largest number of listings on one search page
MaxListings == 3     \* number of listings the server holds for the query
MaxProducts == 2     \* largest max_products value tried
MaxConcurrency == 2  \* largest concurrency value tried
MaxRows == 2         \* largest number of rows handed to one write_csv call
MaxWrites == 3       \* number of write_csv calls in one sequence of writes
MaxRuns == 2         \* number of crawls run one after the other on one path

\* ------------------------------------------------------ program constants
RetryTotal == 3                       \* Retry(total=3, ...)
StatusForcelist == {429, 500, 502, 503, 504}
NoLink == "Link not available"
\* the row DictWriter.writeheader() emits: the field names
Header ==
    [title |-> "title", price |-> "price", rating |-> "rating", image |-> "image",
     product_link |-> "product_link", description |-> "description",
     product_info_json |-> "product_info_json", search_query |-> "search_query"]
\* the output path: whether a file is there, and its rows
NoFile == [exists |-> FALSE, rows |-> <<>>]

\* ------------------------------------------------------ records and merge
\* values a scraped text field can take: empty, or a non-empty text tagged by
\* the page it was read from (L = listing page, D = detail page)
ListingRecords ==
    [title : {"", "L"}, price : {"", "L"}, rating : {"", "L"},
     image_url : {"", "L"}, product_link : {NoLink, "url"}]

DetailRecords ==
    [title_full : {"", "D"}, price_full : {"", "D"}, rating_full : {"", "D"},
     description : {"", "D"}, image_primary : {"", "D"},
     product_info_json : {"{}", "{D}"}]

\* Python's `a or b` on strings
OrElse(a, b) == IF a # "" THEN a ELSE b

\* fetch_product_page: the body on a 200, None on another status or on a
\* RequestException
FetchKinds == {"ok", "status", "exception"}

fetch_product_page(outcome) ==
    IF outcome.kind = "ok" THEN [html |-> TRUE, details |-> outcome.details]
    ELSE [html |-> FALSE]

\* base_item after the three setdefault calls of the no-detail paths
KeepListing(base) ==
    [title |-> base.title, price |-> base.price, rating |-> base.rating,
     image_url |-> base.image_url, product_link |-> base.product_link,
     description |-> "", image_primary |-> base.image_url,
     product_info_json |-> "{}"]

\* lines 301-308: every key of `details` is always present, so the default
\* argument of details.get(...) is never used
MergeDetails(base, details) ==
    [title |-> OrElse(details.title_full, base.title),
     price |-> OrElse(details.price_full, base.price),
     rating |-> OrElse(details.rating_full, base.rating),
     image_url |-> base.image_url, product_link |-> base.product_link,
     description |-> details.description,
     image_primary |-> details.image_primary,
     product_info_json |-> details.product_info_json]

_fetch_and_merge(base, outcome) ==
    IF base.product_link = NoLink THEN KeepListing(base)
    ELSE IF ~fetch_product_page(outcome).html THEN KeepListing(base)
    ELSE MergeDetails(base, fetch_product_page(outcome).details)

\* the dict appended to `collected` in detailed mode (lines 385-394)
DetailedRow(merged, query) ==
    [title |-> merged.title, price |-> merged.price, rating |-> merged.rating,
     image |-> merged.image_primary, product_link |-> merged.product_link,
     description |-> merged.description,
     product_info_json |-> merged.product_info_json, search_query |-> query]

\* the dict appended to `collected` in non-detailed mode (lines 404-413)
PlainRow(base, query) ==
    [title |-> base.title, price |-> base.price, rating |-> base.rating,
     image |-> base.image_url, product_link |-> base.product_link,
     description |-> "", product_info_json |-> "{}", search_query |-> query]

\* ------------------------------------------------------------ the CSV sink
\* crawlir.py imports typing, argparse, time, csv, sys, urllib.parse, json,
\* requests, bs4, concurrent.futures, HTTPAdapter and Retry: `os` is not bound
OsImported == FALSE

\* write_csv(path, rows, fieldnames, append): the file after the call and the
\* exception it raised. `append and os.path.isfile(path)` evaluates `os` only
\* when append is true; the NameError is raised before open() touches the file
write_csv(f, rows, app) ==
    IF app /\ ~OsImported THEN [file |-> f, exc |-> "NameError"]
    ELSE LET file_exists == app /\ f.exists
             opened == IF app THEN f.rows ELSE <<>>
             headed == IF ~file_exists THEN Append(opened, Header) ELSE opened
         IN [file |-> [exists |-> TRUE, rows |-> headed \o rows], exc |-> "none"]

\* ------------------------------------------------------- the retrying GET
Statuses == {200, 403, 404} \cup StatusForcelist

\* what the server does with one attempt: a connection-level failure or an
\* HTTP answer
Responses == {[conn |-> TRUE, status |-> 200]}
             \cup [conn : {FALSE}, status : Statuses]

\* the variant that retries every answer other than a 200
WantsRetry_AnyFailure(r) == r.conn \/ r.status # 200

\* Retry.is_retry / the connection-error path of urlopen: the attempt is one
\* the Retry object wants repeated
WantsRetry(r) == r.conn \/ r.status \in StatusForcelist

\* ------------------------------------------------------------ Python str
\* a str is the sequence of its characters
UpperCase ==
    <<"A", "B", "C", "D", "E", "F", "G", "H", "I", "J", "K", "L", "M",
      "N", "O", "P", "Q", "R", "S", "T", "U", "V", "W", "X", "Y", "Z">>
LowerCase ==
    <<"a", "b", "c", "d", "e", "f", "g", "h", "i", "j", "k", "l", "m",
      "n", "o", "p", "q", "r", "s", "t", "u", "v", "w", "x", "y", "z">>

\* str.lower()
lower(s) ==
    [i \in DOMAIN s |->
        IF \E k \in DOMAIN UpperCase : UpperCase[k] = s[i]
        THEN LowerCase[CHOOSE k \in DOMAIN UpperCase : UpperCase[k] = s[i]]
        ELSE s[i]]

\* `k in s`, and str.contains(k) for a pattern without metacharacters
contains(s, k) ==
    \E i \in 0 .. (Len(s) - Len(k)) : SubSeq(s, i + 1, i + Len(k)) = k

\* str.contains("|".join(ks))
contains_any(s, ks) == \E i \in DOMAIN ks : contains(s, ks[i])

\* ------------------------------------------------------- search_engine.py
\* a missing cell of a numeric column (pandas NaN), a dict key that is absent
\* or holds None, and a rating cell that still holds the page's text
NaN == -1
None == -2
RatingText == -3

PHONE_KEYWORDS == <<
    <<"g", "a", "l", "a", "x", "y">>,
    <<"i", "p", "h", "o", "n", "e">>,
    <<"r", "e", "d", "m", "i">>,
    <<"n", "o", "t", "e">>,
    <<"i", "n", "f", "i", "n", "i", "x">>,
    <<"t", "e", "c", "n", "o">>,
    <<"v", "i", "v", "o">>,
    <<"r", "e", "a", "l", "m", "e">>,
    <<"p", "o", "c", "o">>,
    <<"p", "i", "x", "e", "l">>,
    <<"n", "o", "k", "i", "a">>
>>

EXCLUDE_KEYWORDS == <<
    <<"b", "u", "d", "s">>,
    <<"e", "a", "r", "b", "u", "d", "s">>,
    <<"a", "i", "r", "p", "o", "d", "s">>,
    <<"h", "e", "a", "d", "p", "h", "o", "n", "e">>,
    <<"e", "a", "r", "p", "h", "o", "n", "e">>,
    <<"e", "a", "r", "b", "u", "d">>
>>

\* the truth value Python gives a number or None in a condition (NaN is true)
Truthy(v) == v # None /\ v # 0

\* max(0, x); when x is NaN the comparison x > 0 is false and 0 is kept
Max0(x) == IF x > 0 THEN x ELSE 0
Abs(x) == IF x < 0 THEN 0 - x ELSE x

\* comparisons of a price cell with a bound: false when the cell is NaN
LessEq(price, bound) == price # NaN /\ price <= bound
GreaterEq(price, bound) == price # NaN /\ price >= bound

\* attrs as search_products reads it. A key that is missing and a key whose
\* value is the default of its .get are the same value here: brand << >> is
\* None or "", price_range.max / .min None is a missing key, intents {} and
\* a dict features without values are the defaults. features is what the key
\* holds: a dict (kind "dict", its values in order) or a list (kind "list").
NoAttrs ==
    [product |-> "None", budget |-> None, brand |-> <<>>,
     price_range |-> [max |-> None, min |-> None], intents |-> {},
     features |-> [kind |-> "dict", values |-> <<>>]]

\* relevance_score(row, attrs): [exc, score]. Prices are whole numbers, a
\* rating is held in tenths (45 is 4.5) and the score in thousandths, so that
\* diff / 500, price / 1000 and (rating / 5) * 25 are exact:
\* 1000 * (10 - diff / 500) = 10000 - 2 * diff, 1000 * (20 - price / 1000) =
\* 20000 - price, 1000 * ((r / 10) / 5) * 25 = 500 * r, and 300 * r for 15.
relevance_score(row, at) ==
    LET title == lower(row.product_name)
        price == row.price
        rating == row.rating
        intents == at.intents
        features == at.features
        price_range == at.price_range
        brand_match ==
            IF at.brand # <<>> /\ contains(title, at.brand) THEN 30000 ELSE 0
        below_max ==
            IF Truthy(price_range.max) /\ LessEq(price, price_range.max)
            THEN 20000 ELSE 0
        above_min ==
            IF Truthy(price_range.min) /\ GreaterEq(price, price_range.min)
            THEN 10000 ELSE 0
        around ==
            IF "around_price" \in intents /\ Truthy(price_range.max)
            THEN IF price = NaN THEN 0
                 ELSE Max0(10000 - 2 * Abs(price - price_range.max))
            ELSE 0
        cheap ==
            IF "cheap" \in intents /\ price # 0
            THEN IF price = NaN THEN 0 ELSE Max0(20000 - price)
            ELSE 0
        rated ==
            IF rating # 0 /\ "quality" \in intents THEN 500 * rating
            ELSE IF rating # 0 THEN 300 * rating
            ELSE 0
        matched ==
            {i \in DOMAIN features.values :
                contains(title, lower(features.values[i]))}
        feature_match == 5000 * Cardinality(matched)
    IN  IF rating = RatingText
        THEN [exc |-> "TypeError", score |-> 0]
        ELSE IF features.kind = "list"
        THEN [exc |-> "AttributeError", score |-> 0]
        ELSE [exc |-> "none",
              score |-> IF rating = NaN THEN NaN
                        ELSE brand_match + below_max + above_min + around
                             + cheap + rated + feature_match]

\* a frame, and the absence of one
NoFrame == [frame |-> FALSE, rows |-> <<>>]
Frame(rows) == [frame |-> TRUE, rows |-> rows]

\* what a caller's variable holds: nothing yet, None, or a frame
Unset == [kind |-> "unset", rows |-> <<>>]
ReturnedNone == [kind |-> "None", rows |-> <<>>]

\* df.copy() with product_name lower-cased; index is the row's label, its
\* position in the frame passed in
Lowered(frame) ==
    [i \in DOMAIN frame |->
        [index |-> i, product_name |-> lower(frame[i].product_name),
         price |-> frame[i].price, rating |-> frame[i].rating]]

\* the product-type filter with the exclusion words never applied
ByProductType_NoExclusion(rows, at) ==
    IF at.product = "phone"
    THEN SelectSeq(rows,
                   LAMBDA r : contains_any(r.product_name, PHONE_KEYWORDS))
    ELSE rows

\* the product-type filter with the phone keywords never applied
ByProductType_ExclusionOnly(rows, at) ==
    IF at.product = "phone"
    THEN SelectSeq(rows,
                   LAMBDA r : ~contains_any(r.product_name, EXCLUDE_KEYWORDS))
    ELSE rows

\* the product-type filter: only for "phone"
ByProductType(rows, at) ==
    IF at.product = "phone"
    THEN LET phones == SelectSeq(rows,
                 LAMBDA r : contains_any(r.product_name, PHONE_KEYWORDS))
         IN SelectSeq(phones,
                 LAMBDA r : ~contains_any(r.product_name, EXCLUDE_KEYWORDS))
    ELSE rows

\* the budget filter left out
ByBudget_Off(rows, at) == rows

\* result[result["price"] <= attrs["budget"]]
ByBudget(rows, at) ==
    IF at.budget # None
    THEN SelectSeq(rows, LAMBDA r : LessEq(r.price, at.budget))
    ELSE rows

\* the price_range bounds used for the score only
ByPriceRange_Off(rows, at) == rows

\* the price_range filter: max, then min
ByPriceRange(rows, at) ==
    LET below == IF at.price_range.max # None
                 THEN SelectSeq(rows,
                          LAMBDA r : LessEq(r.price, at.price_range.max))
                 ELSE rows
    IN IF at.price_range.min # None
       THEN SelectSeq(below,
                LAMBDA r : GreaterEq(r.price, at.price_range.min))
       ELSE below

\* the brand filter
ByBrand(rows, at) ==
    IF at.brand # <<>>
    THEN SelectSeq(rows, LAMBDA r : contains(r.product_name, lower(at.brand)))
    ELSE rows

\* the rows left when scoring starts
Filtered(frame, at) ==
    ByBrand(ByPriceRange(ByBudget(ByProductType(Lowered(frame), at), at), at),
            at)

\* result.apply(relevance_score, axis=1): the outcome for each row, and the
\* exception of the first row that raises
Scores(rows, at) == [i \in DOMAIN rows |-> relevance_score(rows[i], at)]
ApplyExc(rows, at) ==
    LET sc == Scores(rows, at)
        bad == {i \in DOMAIN rows : sc[i].exc # "none"}
    IN IF bad = {} THEN "none"
       ELSE sc[CHOOSE i \in bad : \A j \in bad : i <= j].exc
Scored(rows, at) ==
    [i \in DOMAIN rows |->
        [index |-> rows[i].index, product_name |-> rows[i].product_name,
         price |-> rows[i].price, rating |-> rows[i].rating,
         score |-> relevance_score(rows[i], at).score]]

\* sort_values(by="score", ascending=False): scores descending, NaN last.
\* kind is left at its default, which is not a stable sort, so the order of
\* rows with equal scores is any order
Before(a, b) == b = NaN \/ (a # NaN /\ a >= b)
Sortings(rows) ==
    LET n == Len(rows)
        perms == {p \in [1 .. n -> 1 .. n] :
                     \A i, j \in 1 .. n : i # j => p[i] # p[j]}
        sorted(p) ==
            \A i \in 1 .. n - 1 : Before(rows[p[i]].score, rows[p[i + 1]].score)
    IN {[i \in 1 .. n |-> rows[p[i]]] : p \in {q \in perms : sorted(q)}}

\* --------------------------------------------------- attribute_extraction.py
\* an Arabic character is written as its name ("ar:kaf"): one element of the
\* str, compared as a whole like any other character
PRODUCTS_MAP == [
    shoes |-> <<
        <<"ar:kaf", "ar:waw", "ar:teh", "ar:sheen">>,
        <<"ar:hah", "ar:thal", "ar:alef", "ar:hamza">>,
        <<"ar:jeem", "ar:zain", "ar:meem", "ar:teh_marbuta">>,
        <<"ar:jeem", "ar:zain", "ar:meem", "ar:heh">>,
        <<"s", "h", "o", "e", "s">>,
        <<"s", "h", "o", "e">>,
        <<"s", "n", "e", "a", "k", "e", "r">>,
        <<"s", "n", "e", "a", "k", "e", "r", "s">>>>,
    laptop |-> <<
        <<"ar:lam", "ar:alef", "ar:beh">>,
        <<"ar:lam", "ar:alef", "ar:beh", "ar:teh", "ar:waw", "ar:beh">>,
        <<"ar:hah", "ar:alef", "ar:seen", "ar:waw", "ar:beh">>,
        <<"ar:kaf", "ar:meem", "ar:beh", "ar:yeh", "ar:waw", "ar:teh", "ar:reh">>,
        <<"n", "o", "t", "e", "b", "o", "o", "k">>,
        <<"l", "a", "p", "t", "o", "p">>,
        <<"p", "c">>>>,
    phone |-> <<
        <<"ar:meem", "ar:waw", "ar:beh", "ar:alef", "ar:yeh", "ar:lam">>,
        <<"ar:jeem", "ar:waw", "ar:alef", "ar:lam">>,
        <<"ar:heh", "ar:alef", "ar:teh", "ar:feh">>,
        <<"i", "p", "h", "o", "n", "e">>,
        <<"ar:alef", "ar:yeh", "ar:feh", "ar:waw", "ar:noon">>,
        <<"s", "a", "m", "s", "u", "n", "g">>,
        <<"ar:seen", "ar:alef", "ar:meem", "ar:seen", "ar:waw", "ar:noon", "ar:jeem">>,
        <<"p", "h", "o", "n", "e">>>>,
    watch |-> <<
        <<"ar:seen", "ar:alef", "ar:ain", "ar:teh_marbuta">>,
        <<"w", "a", "t", "c", "h">>,
        <<"s", "m", "a", "r", "t", "w", "a", "t", "c", "h">>>>,
    tshirt |-> <<
        <<"ar:teh", "ar:yeh", "ar:sheen", "ar:yeh", "ar:reh", "ar:teh">>,
        <<"ar:qaf", "ar:meem", "ar:yeh", "ar:sad">>,
        <<"t", "s", "h", "i", "r", "t">>,
        <<"t", "-", "s", "h", "i", "r", "t">>,
        <<"s", "h", "i", "r", "t">>>>
]

COLORS == <<
    <<"ar:alef", "ar:seen", "ar:waw", "ar:dal">>,
    <<"ar:alef", "ar:beh", "ar:yeh", "ar:dad">>,
    <<"ar:alef", "ar:hah", "ar:meem", "ar:reh">>,
    <<"ar:alef", "ar:zain", "ar:reh", "ar:qaf">>,
    <<"ar:alef", "ar:khah", "ar:dad", "ar:reh">>,
    <<"ar:reh", "ar:meem", "ar:alef", "ar:dal", "ar:yeh">>,
    <<"ar:beh", "ar:noon", "ar:yeh">>,
    <<"ar:alef", "ar:sad", "ar:feh", "ar:reh">>,
    <<"ar:feh", "ar:dad", "ar:yeh">>,
    <<"ar:thal", "ar:heh", "ar:beh", "ar:yeh">>,
    <<"ar:waw", "ar:reh", "ar:dal", "ar:yeh">>,
    <<"b", "l", "a", "c", "k">>,
    <<"w", "h", "i", "t", "e">>,
    <<"r", "e", "d">>,
    <<"b", "l", "u", "e">>,
    <<"g", "r", "e", "e", "n">>,
    <<"g", "r", "a", "y">>,
    <<"g", "r", "e", "y">>,
    <<"b", "r", "o", "w", "n">>,
    <<"y", "e", "l", "l", "o", "w">>,
    <<"s", "i", "l", "v", "e", "r">>,
    <<"g", "o", "l", "d">>,
    <<"p", "i", "n", "k">>
>>

\* AR_BRAND_MAP as its items, in the dict's order
AR_BRAND_MAP == <<
    <<<<"ar:seen", "ar:alef", "ar:meem", "ar:seen", "ar:waw", "ar:noon", "ar:jeem">>,
      <<"s", "a", "m", "s", "u", "n", "g">>>>,
    <<<<"ar:sheen", "ar:alef", "ar:waw", "ar:meem", "ar:yeh">>,
      <<"x", "i", "a", "o", "m", "i">>>>,
    <<<<"ar:alef", "ar:yeh", "ar:feh", "ar:waw", "ar:noon">>,
      <<"i", "p", "h", "o", "n", "e">>>>,
    <<<<"ar:alef", "ar:beh", "ar:lam">>,
      <<"a", "p", "p", "l", "e">>>>,
    <<<<"ar:heh", "ar:waw", "ar:alef", "ar:waw", "ar:yeh">>,
      <<"h", "u", "a", "w", "e", "i">>>>,
    <<<<"ar:alef", "ar:noon", "ar:feh", "ar:yeh", "ar:noon", "ar:kaf", "ar:seen">>,
      <<"i", "n", "f", "i", "n", "i", "x">>>>,
    <<<<"ar:reh", "ar:yeh", "ar:lam", "ar:meem", "ar:yeh">>,
      <<"r", "e", "a", "l", "m", "e">>>>,
    <<<<"ar:noon", "ar:waw", "ar:kaf", "ar:yeh", "ar:alef">>,
      <<"n", "o", "k", "i", "a">>>>,
    <<<<"ar:teh", "ar:kaf", "ar:noon", "ar:waw">>,
      <<"t", "e", "c", "n", "o">>>>,
    <<<<"ar:alef", "ar:waw", "ar:beh", "ar:waw">>,
      <<"o", "p", "p", "o">>>>
>>

\* the categories in the order PRODUCTS_MAP.items() gives them
Categories == <<"shoes", "laptop", "phone", "watch", "tshirt">>

\* characters for which str.isdigit() is true: the decimal digits of a
\* script, which int() reads by their value, and other digit characters
\* (a superscript two here), which int() rejects with ValueError
AsciiDigits == <<"0", "1", "2", "3", "4", "5", "6", "7", "8", "9">>
ArabicIndicDigits ==
    <<"ar:digit_zero", "ar:digit_one", "ar:digit_two", "ar:digit_three", "ar:digit_four",
      "ar:digit_five", "ar:digit_six", "ar:digit_seven", "ar:digit_eight", "ar:digit_nine">>
OtherDigits == {"superscript_two"}
IsDecimal(ch) ==
    \/ \E d \in DOMAIN AsciiDigits : AsciiDigits[d] = ch
    \/ \E d \in DOMAIN ArabicIndicDigits : ArabicIndicDigits[d] = ch
DigitValue(ch) ==
    IF \E d \in DOMAIN AsciiDigits : AsciiDigits[d] = ch
    THEN (CHOOSE d \in DOMAIN AsciiDigits : AsciiDigits[d] = ch) - 1
    ELSE (CHOOSE d \in DOMAIN ArabicIndicDigits : ArabicIndicDigits[d] = ch) - 1

\* str.isdigit(): at least one character, all of them digits
isdigit(t) ==
    /\ t # <<>>
    /\ \A i \in DOMAIN t : IsDecimal(t[i]) \/ t[i] \in OtherDigits

\* int(t) for a t that isdigit(): [exc, value]
RECURSIVE DecimalValue(_)
DecimalValue(t) ==
    IF t = <<>> THEN 0
    ELSE 10 * DecimalValue(SubSeq(t, 1, Len(t) - 1)) + DigitValue(t[Len(t)])
int(t) ==
    IF \A i \in DOMAIN t : IsDecimal(t[i])
    THEN [exc |-> "none", value |-> DecimalValue(t)]
    ELSE [exc |-> "ValueError", value |-> None]

\* any("a" <= ch.lower() <= "z" for ch in t)
HasLatin(t) ==
    \E i \in DOMAIN t : \E k \in DOMAIN LowerCase : LowerCase[k] = lower(<<t[i]>>)[1]

\* `t in words` for a list of str
InList(t, words) == \E i \in DOMAIN words : words[i] = t

\* the locals of extract_attributes before the loop; << >> is None for a
\* str (no token is empty where one is stored), None for a number
NoFacets ==
    [exc |-> "none", product |-> "None", color |-> <<>>, size |-> None,
     budget |-> None, brand |-> <<>>]

\* the size / budget split with the boundary one lower
Numbered_Below70(st, t) ==
    IF ~isdigit(t) THEN st
    ELSE IF int(t).exc # "none" THEN [st EXCEPT !.exc = int(t).exc]
    ELSE LET num == int(t).value
         IN IF num < 70 /\ st.size = None THEN [st EXCEPT !.size = num]
            ELSE IF num >= 70 /\ st.budget = None THEN [st EXCEPT !.budget = num]
            ELSE st

\* lines 61-66: the number a token holds becomes the size or the budget
Numbered(st, t) ==
    IF ~isdigit(t) THEN st
    ELSE IF int(t).exc # "none" THEN [st EXCEPT !.exc = int(t).exc]
    ELSE LET num == int(t).value
         IN IF num <= 70 /\ st.size = None THEN [st EXCEPT !.size = num]
            ELSE IF num > 70 /\ st.budget = None THEN [st EXCEPT !.budget = num]
            ELSE st

\* lines 57-58
Coloured(st, t) ==
    IF InList(t, COLORS) /\ st.color = <<>> THEN [st EXCEPT !.color = t] ELSE st

\* lines 69-74: the Arabic brand names first, then any token with a Latin
\* letter
Branded(st, t) ==
    LET hits == {i \in DOMAIN AR_BRAND_MAP : AR_BRAND_MAP[i][1] = t}
        ar == IF hits # {} /\ st.brand = <<>>
              THEN [st EXCEPT !.brand = AR_BRAND_MAP[CHOOSE i \in hits : TRUE][2]]
              ELSE st
    IN IF HasLatin(t) /\ ar.brand = <<>> THEN [ar EXCEPT !.brand = t] ELSE ar

\* lines 77-81: the first category whose words hold the token
Typed(st, t) ==
    LET hits == {c \in DOMAIN Categories :
                    InList(t, PRODUCTS_MAP[Categories[c]])}
    IN IF st.product = "None" /\ hits # {}
       THEN [st EXCEPT !.product =
                Categories[CHOOSE c \in hits : \A d \in hits : c <= d]]
       ELSE st

\* one round of the loop; an exception ends the call
Step(st, t) ==
    LET numbered == Numbered(Coloured(st, t), t)
    IN IF numbered.exc # "none" THEN numbered
       ELSE Typed(Branded(numbered, t), t)

RECURSIVE Scan(_, _)
Scan(st, tokens) ==
    IF tokens = <<>> \/ st.exc # "none" THEN st
    ELSE Scan(Step(st, tokens[1]), SubSeq(tokens, 2, Len(tokens)))

\* extract_attributes(tokens, lang): [exc, value], value the dict returned
extract_attributes(tokens, lg) ==
    LET st == Scan(NoFacets, tokens)
    IN IF st.exc # "none" THEN [exc |-> st.exc, value |-> <<>>]
       ELSE [exc |-> "none",
             value |-> <<[lang |-> lg, product |-> st.product,
                          color |-> st.color, size |-> st.size,
                          budget |-> st.budget, brand |-> st.brand,
                          features |-> [kind |-> "list", values |-> <<>>]]>>]

\* ------------------------------------------------- the price of a row
\* the value of a price cell: a str, an int, a float (held in hundredths, so
\* num 129900 is 1299.0) or a missing value (pd.NA, NaN, None)
PriceStr(t) == [kind |-> "str", text |-> t, num |-> 0]
PriceInt(v) == [kind |-> "int", text |-> <<>>, num |-> v]
PriceFloat(c) == [kind |-> "float", text |-> <<>>, num |-> c]
Missing == [kind |-> "NA", text |-> <<>>, num |-> 0]

\* re.sub(r"[^\d]", "", x): the decimal digits of x, in order
Digits(x) == SelectSeq(x, IsDecimal)

\* str(n) for an int n >= 0
RECURSIVE IntStr(_)
IntStr(n) ==
    IF n < 10 THEN <<AsciiDigits[n + 1]>>
    ELSE Append(IntStr(n \div 10), AsciiDigits[(n % 10) + 1])

\* str(x) for a float x >= 0 with at most two decimals: the shortest text
\* that reads back as x, never without a decimal point
FloatStr(c) ==
    LET f == c % 100
        decimals == IF f % 10 = 0 THEN <<AsciiDigits[(f \div 10) + 1]>>
                    ELSE <<AsciiDigits[(f \div 10) + 1], AsciiDigits[(f % 10) + 1]>>
    IN IntStr(c \div 100) \o <<".">> \o decimals

\* Series.astype(str) on one cell
astype_str(p) ==
    IF p.kind = "str" THEN p.text
    ELSE IF p.kind = "int" THEN IntStr(p.num)
    ELSE IF p.kind = "float" THEN FloatStr(p.num)
    ELSE <<"n", "a", "n">>

\* clean_price_amazon(raw). The currency words and blanks removed at lines
\* 14-15 hold no digit, so line 18 alone decides x; val / 100 is held as val
\* hundredths and round(result, 2) leaves it as it is
clean_price_amazon(raw) ==
    IF raw.kind # "str" THEN raw
    ELSE LET x == Digits(raw.text)
         IN IF x = <<>> THEN Missing ELSE PriceFloat(DecimalValue(x))

\* clean_price_column on one cell: Missing is a row that dropna removes
clean_price_column(p) ==
    LET x == Digits(astype_str(p))
    IN IF x = <<>> THEN Missing ELSE PriceInt(DecimalValue(x))

VARIABLES
    \* --- one GET through the session (HTTPAdapter with max_retries)
    gState,        \* "idle", "sending", "returned", "raised"
    gRetries,      \* Retry.total still left
    gLog,          \* the server's answers to the attempts made so far
    \* --- one call of _fetch_and_merge and the row built from it
    mBase, mOutcome,  \* the listing and what the task's fetch meets
    mRow,             \* << >>, then the one row built from the merged item
    \* --- the output file and a sequence of write_csv calls on it
    file,          \* the output path: [exists, rows]
    wCalls,        \* the write_csv calls made so far: [rows, append, exc]
    \* --- one call of crawl_amazon_to_csv
    run,           \* which call on the output path this is (1 = the first)
    pc,            \* position of the orchestrating thread
    pages, detailed, max_products, concurrency, append,
    page_number, fetched_products, collected,
    page_bases,    \* listings of the page being processed
    task,          \* the futures of the page: index -> [st, res]
    exc,           \* exception that reached the caller, "none" if none
    result,        \* returned value, -1 while nothing was returned
    \* --- history of the call
    requested,     \* page numbers requested from the server, in order
    answers,       \* page number -> what the request produced
    origin,        \* for each collected row, <<page, index>> of its listing
    launched,      \* <<page, index>> of every detail task ever submitted
    fate           \* what each finished detail task met: [id, base, kind, raised]

gVars == <<gState, gRetries, gLog>>
mVars == <<mBase, mOutcome, mRow>>
wVars == <<file, wCalls>>
cVars == <<run, pc, pages, detailed, max_products, concurrency, append,
           page_number, fetched_products, collected, page_bases, task, exc,
           result, requested, answers, origin, launched, fate>>
VARIABLES
    \* --- one call of search_products and what its caller receives
    sPc,           \* "idle", "call", "done", "raised"
    df,            \* the frame passed in: a sequence of rows
    attrs,         \* the facets passed in
    top_n,         \* the requested number of results
    ranked,        \* the local `result` when the body ends: [frame, rows]
    final_results, \* what the caller's variable holds after the call
    sExc,          \* exception that left search_products, "none" if none
    \* --- one call of relevance_score on the row df[1]
    score          \* << >>, then the one outcome [exc, score]

VARIABLES
    \* --- one call of extract_attributes
    ePc,           \* "idle", "call", "done", "raised"
    tokens, lang,  \* its arguments
    extracted,     \* << >>, then the one dict returned
    eExc           \* exception that left extract_attributes, "none" if none

VARIABLES
    \* --- the price cell of one row on its way from the CSV to the ranking
    pPc,           \* "idle", "raw", "amazon", "column", "dropped"
    cell           \* the values the cell has held, the raw one first

sVars == <<sPc, df, attrs, top_n, ranked, final_results, sExc, score>>
eVars == <<ePc, tokens, lang, extracted, eExc>>
pVars == <<pPc, cell>>
qVars == <<sVars, eVars, pVars>>
vars == <<gVars, mVars, wVars, cVars, qVars>>

\* values of the variables a specification does not use
GIdle == gState = "idle" /\ gRetries = RetryTotal /\ gLog = <<>>
MIdle == mBase = "none" /\ mOutcome = "none" /\ mRow = <<>>
WIdle == file = NoFile /\ wCalls = <<>>
CIdle ==
    /\ run = 0 /\ pc = "idle" /\ pages = 0 /\ detailed = FALSE /\ max_products = 0
    /\ concurrency = 0 /\ append = FALSE /\ page_number = 0
    /\ fetched_products = 0 /\ collected = <<>> /\ page_bases = <<>>
    /\ task = <<>> /\ exc = "none" /\ result = -1 /\ requested = <<>>
    /\ answers = <<>> /\ origin = <<>> /\ launched = {} /\ fate = {}

SIdle ==
    /\ sPc = "idle" /\ df = <<>> /\ attrs = NoAttrs /\ top_n = 0
    /\ ranked = NoFrame /\ final_results = Unset /\ sExc = "none"
    /\ score = <<>>
EIdle ==
    /\ ePc = "idle" /\ tokens = <<>> /\ lang = "" /\ extracted = <<>>
    /\ eExc = "none"
PIdle == pPc = "idle" /\ cell = <<>>
QIdle == SIdle /\ EIdle /\ PIdle

\* ------------------------------------------------- specification: one GET
GetInit == gState = "sending" /\ gRetries = RetryTotal /\ gLog = <<>>
           /\ MIdle /\ WIdle /\ CIdle /\ QIdle

\* one attempt of session.get: urlopen sends the request; a retryable outcome
\* goes through Retry.increment (total - 1, exhausted when below 0), any other
\* answer is returned to the caller
GetAttempt(r) ==
    /\ gState = "sending"
    /\ gLog' = Append(gLog, r)
    /\ IF WantsRetry(r)
       THEN /\ gRetries' = gRetries - 1
            /\ gState' = IF gRetries - 1 < 0 THEN "raised" ELSE "sending"
       ELSE /\ gRetries' = gRetries
            /\ gState' = "returned"
    /\ UNCHANGED qVars
    /\ UNCHANGED <<mVars, wVars, cVars>>

GetNext == \E r \in Responses : GetAttempt(r)
SpecGet == GetInit /\ [][GetNext]_vars

\* what session.get hands to its caller once it is over
GetKind ==
    IF gState = "raised" THEN "exception"
    ELSE IF gLog[Len(gLog)].status = 200 THEN "ok" ELSE "status"

\* ------------------------------------- specification: one fetch-and-merge
\* what a detail task meets: the outcome of its fetch and, on a 200, the
\* fields parsed from the page; "error" is any exception other than a
\* RequestException escaping the task (it is not caught inside the task)
BlankDetails ==
    [title_full |-> "", price_full |-> "", rating_full |-> "",
     description |-> "", image_primary |-> "", product_info_json |-> "{}"]

TaskOutcomes ==
    [kind : {"ok"}, details : DetailRecords]
    \cup [kind : {"status", "exception", "error"}, details : {BlankDetails}]

\* the variant in which fetch_product_page lets the failure of the fetch escape
RunTask_FetchFailureEscapes(base, outcome) ==
    IF base.product_link # NoLink /\ outcome.kind # "ok"
    THEN [raised |-> TRUE, merged |-> KeepListing(base)]
    ELSE [raised |-> FALSE, merged |-> _fetch_and_merge(base, outcome)]

\* the future of a submitted task: its exception, or the merged base_item
RunTask(base, outcome) ==
    IF base.product_link # NoLink /\ outcome.kind = "error"
    THEN [raised |-> TRUE, merged |-> KeepListing(base)]
    ELSE [raised |-> FALSE, merged |-> _fetch_and_merge(base, outcome)]

MergeInit ==
    /\ mBase \in ListingRecords
    /\ mOutcome \in {o \in TaskOutcomes : o.kind # "error"}
    /\ mRow = <<>>
    /\ GIdle /\ WIdle /\ CIdle /\ QIdle

MergeApply ==
    /\ mRow = <<>>
    /\ mRow' = <<DetailedRow(_fetch_and_merge(mBase, mOutcome), "q")>>
    /\ UNCHANGED qVars
    /\ UNCHANGED <<mBase, mOutcome, gVars, wVars, cVars>>

SpecMerge == MergeInit /\ [][MergeApply]_vars

\* ------------------------------- specification: a sequence of write_csv calls
\* the rows a call may be handed: rows of two crawls with different queries
RowKinds ==
    {PlainRow([title |-> "L", price |-> "L", rating |-> "L", image_url |-> "L",
               product_link |-> "url"], q) : q \in {"shoes", "laptop"}}

RECURSIVE SeqsUpTo(_, _)
SeqsUpTo(S, n) ==
    IF n = 0 THEN {<<>>}
    ELSE LET shorter == SeqsUpTo(S, n - 1)
         IN shorter \cup {Append(t, x) : t \in shorter, x \in S}

WriteInit ==
    file = NoFile /\ wCalls = <<>> /\ GIdle /\ MIdle /\ CIdle /\ QIdle

WriteCall(rows, app) ==
    /\ Len(wCalls) < MaxWrites
    /\ LET r == write_csv(file, rows, app)
       IN /\ file' = r.file
          /\ wCalls' = Append(wCalls, [rows |-> rows, append |-> app, exc |-> r.exc])
    /\ UNCHANGED qVars
    /\ UNCHANGED <<gVars, mVars, cVars>>

WriteNext == \E rows \in SeqsUpTo(RowKinds, MaxRows), app \in BOOLEAN : WriteCall(rows, app)
SpecWrite == WriteInit /\ [][WriteNext]_vars

\* ------------------------------ specification: one crawl_amazon_to_csv call
\* the query of each call; successive calls search for different things, so
\* the search_query column tells which call wrote a row
Queries == <<"shoes", "laptop", "phone", "watch">>
Query == Queries[run]

\* listings and detail pages the server hands out during a crawl
CrawlListings == {b \in ListingRecords : b.title = "L" /\ b.price = "L"
                                         /\ b.rating = "L" /\ b.image_url = "L"}
FullDetails ==
    [title_full |-> "D", price_full |-> "D", rating_full |-> "D",
     description |-> "D", image_primary |-> "D", product_info_json |-> "{D}"]
CrawlOutcomes == {o \in TaskOutcomes : o.kind = "ok" => o.details = FullDetails}

\* answers to a search-page request: the GET raised, gave another status than
\* 200, or gave a page that parses into `items`
PageAnswers ==
    [kind : {"exception", "status"}, items : {<<>>}]
    \cup [kind : {"ok"}, items : SeqsUpTo(CrawlListings, MaxItems)]

CrawlInit ==
    /\ run = 1
    /\ pc = "start"
    /\ pages \in -1 .. MaxPages
    /\ detailed \in BOOLEAN
    /\ max_products \in 0 .. MaxProducts
    /\ concurrency \in 0 .. MaxConcurrency
    /\ append \in BOOLEAN
    /\ file = NoFile
    /\ wCalls = <<>>
    /\ page_number = 1 /\ fetched_products = 0 /\ collected = <<>>
    /\ page_bases = <<>> /\ task = <<>> /\ exc = "none" /\ result = -1
    /\ requested = <<>> /\ answers = <<>> /\ origin = <<>> /\ launched = {} /\ fate = {}
    /\ GIdle /\ MIdle /\ QIdle

hVars == <<requested, answers, origin, launched, fate>>
params == <<run, pages, detailed, max_products, concurrency, append>>

\* `max_products and fetched_products >= max_products`
LimitReached(m, f) == m # 0 /\ f >= m

\* lines 344-352
Validate ==
    /\ pc = "start"
    /\ IF pages < 0
       THEN pc' = "raised" /\ exc' = "ValueError"
       ELSE pc' = "loop" /\ exc' = exc
    /\ UNCHANGED qVars
    /\ UNCHANGED <<params, page_number, fetched_products, collected, page_bases,
                   task, result, hVars, file, wCalls, gVars, mVars>>

\* the variant of the test that lets one page more through
PastLastPage_OneMore == pages # 0 /\ page_number > pages + 1

\* line 355: `if pages and page_number > pages: break`
PastLastPage == pages # 0 /\ page_number > pages

PagesDone ==
    /\ pc = "loop" /\ PastLastPage
    /\ pc' = "finish"
    /\ UNCHANGED qVars
    /\ UNCHANGED <<params, page_number, fetched_products, collected, page_bases,
                   task, exc, result, hVars, file, wCalls, gVars, mVars>>

\* listings the server has handed out on the pages requested so far
Served == IF requested = <<>> THEN 0 ELSE requested[Len(requested)].served

\* the request of search page page_number is sent (line 361)
Request(a) ==
    /\ pc = "loop" /\ ~PastLastPage
    /\ a \in PageAnswers
    /\ a.items # <<>> => page_number <= MaxPages
    /\ Served + Len(a.items) <= MaxListings
    /\ requested' = Append(requested, [page |-> page_number, had |-> Len(collected),
                                       served |-> Served + Len(a.items)])
    /\ answers' = Append(answers, IF a.kind = "ok" /\ a.items = <<>> THEN "empty"
                                  ELSE a.kind)

\* lines 362-368: the GET raised a RequestException or the status is not 200
PageFetchFails(a) ==
    /\ Request(a) /\ a.kind # "ok"
    /\ pc' = "finish"
    /\ UNCHANGED qVars
    /\ UNCHANGED <<params, page_number, fetched_products, collected, page_bases,
                   task, exc, result, origin, launched, fate, file, wCalls, gVars, mVars>>

\* lines 370-373: the page parses into no item
PageEmpty(a) ==
    /\ Request(a) /\ a.kind = "ok" /\ a.items = <<>>
    /\ pc' = "finish"
    /\ UNCHANGED qVars
    /\ UNCHANGED <<params, page_number, fetched_products, collected, page_bases,
                   task, exc, result, origin, launched, fate, file, wCalls, gVars, mVars>>

\* lines 403-416: the rows the non-detailed loop appends for listings i..n
\* when f rows were collected before
RECURSIVE PlainCount(_, _, _, _)
PlainCount(n, i, f, m) ==
    IF i > n THEN 0
    ELSE IF LimitReached(m, f + 1) THEN 1
    ELSE 1 + PlainCount(n, i + 1, f + 1, m)

\* lines 418-423, the end of one pass of the while loop
AfterPage(f) ==
    IF LimitReached(max_products, f)
    THEN pc' = "finish" /\ page_number' = page_number
    ELSE pc' = "loop" /\ page_number' = page_number + 1

\* lines 375, 402-423: a page with listings in non-detailed mode
PagePlain(a) ==
    /\ Request(a) /\ a.kind = "ok" /\ a.items # <<>> /\ ~detailed
    /\ LET k == PlainCount(Len(a.items), 1, fetched_products, max_products)
       IN /\ collected' = collected \o [j \in 1 .. k |-> PlainRow(a.items[j], Query)]
          /\ origin' = origin \o [j \in 1 .. k |-> <<page_number, j>>]
          /\ fetched_products' = fetched_products + k
          /\ AfterPage(fetched_products + k)
    /\ UNCHANGED qVars
    /\ UNCHANGED <<params, page_bases, task, exc, result, launched, fate,
                   file, wCalls, gVars, mVars>>

\* lines 375-381: a page with listings in detailed mode; every listing is
\* submitted to a new ThreadPoolExecutor(max_workers=concurrency)
PageDetailed(a) ==
    /\ Request(a) /\ a.kind = "ok" /\ a.items # <<>> /\ detailed
    /\ concurrency > 0
    /\ page_bases' = a.items
    /\ task' = [i \in 1 .. Len(a.items) |-> [st |-> "queued", res |-> <<>>]]
    /\ launched' = launched \cup {<<page_number, i>> : i \in 1 .. Len(a.items)}
    /\ pc' = "collect"
    /\ UNCHANGED qVars
    /\ UNCHANGED <<params, page_number, fetched_products, collected, exc, result,
                   origin, fate, file, wCalls, gVars, mVars>>

\* ThreadPoolExecutor raises ValueError when max_workers <= 0
ExecutorRejected(a) ==
    /\ Request(a) /\ a.kind = "ok" /\ a.items # <<>> /\ detailed
    /\ concurrency <= 0
    /\ pc' = "raised" /\ exc' = "ValueError"
    /\ UNCHANGED qVars
    /\ UNCHANGED <<params, page_number, fetched_products, collected, page_bases,
                   task, result, origin, launched, fate, file, wCalls, gVars, mVars>>

Running == {i \in DOMAIN task : task[i].st = "running"}

\* the variant of a pool that starts a thread for every work item
TaskStart_Unbounded(i) ==
    /\ pc \in {"collect", "drain"}
    /\ i \in DOMAIN task /\ task[i].st = "queued"
    /\ \A j \in 1 .. i - 1 : task[j].st # "queued"
    /\ task' = [task EXCEPT ![i].st = "running"]
    /\ UNCHANGED qVars
    /\ UNCHANGED <<params, pc, page_number, fetched_products, collected,
                   page_bases, exc, result, hVars, file, wCalls, gVars, mVars>>

\* a worker thread takes the oldest queued work item; the pool never has more
\* than max_workers threads
TaskStart(i) ==
    /\ pc \in {"collect", "drain"}
    /\ i \in DOMAIN task /\ task[i].st = "queued"
    /\ \A j \in 1 .. i - 1 : task[j].st # "queued"
    /\ Cardinality(Running) < concurrency
    /\ task' = [task EXCEPT ![i].st = "running"]
    /\ UNCHANGED qVars
    /\ UNCHANGED <<params, pc, page_number, fetched_products, collected,
                   page_bases, exc, result, hVars, file, wCalls, gVars, mVars>>

\* _fetch_and_merge(session, base) returns or raises in its worker; a listing
\* without a link is returned without any fetch, so no outcome is drawn for it
TaskFinish(i, o) ==
    /\ pc \in {"collect", "drain"}
    /\ i \in DOMAIN task /\ task[i].st = "running"
    /\ o \in CrawlOutcomes
    /\ page_bases[i].product_link = NoLink => o.kind = "status"
    /\ LET r == RunTask(page_bases[i], o)
       IN /\ task' = [task EXCEPT ![i] = [st |-> "done", res |-> <<r>>]]
          /\ fate' = fate \cup {[id |-> <<page_number, i>>, base |-> page_bases[i],
                                 kind |-> IF page_bases[i].product_link = NoLink
                                          THEN "nolink" ELSE o.kind,
                                 raised |-> r.raised]}
    /\ UNCHANGED qVars
    /\ UNCHANGED <<params, pc, page_number, fetched_products, collected,
                   page_bases, exc, result, requested, answers, origin, launched,
                   file, wCalls, gVars, mVars>>

\* the variant of the collector without the try/except around fut.result():
\* the exception of a task leaves crawl_amazon_to_csv
Collect_Unguarded(i) ==
    /\ pc = "collect"
    /\ i \in DOMAIN task /\ task[i].st = "done"
    /\ task' = [task EXCEPT ![i].st = "taken"]
    /\ IF task[i].res[1].raised
       THEN /\ pc' = "raised" /\ exc' = "TaskError"
            /\ UNCHANGED <<collected, origin, fetched_products>>
       ELSE /\ collected' = Append(collected, DetailedRow(task[i].res[1].merged, Query))
            /\ origin' = Append(origin, <<page_number, i>>)
            /\ fetched_products' = fetched_products + 1
            /\ pc' = IF LimitReached(max_products, fetched_products + 1)
                     THEN "drain" ELSE "collect"
            /\ exc' = exc
    /\ UNCHANGED qVars
    /\ UNCHANGED <<params, page_number, page_bases, result, requested, answers,
                   launched, fate, file, wCalls, gVars, mVars>>

\* the variant of the collector that never leaves the loop on max_products
Collect_NoLimit(i) ==
    /\ pc = "collect"
    /\ i \in DOMAIN task /\ task[i].st = "done"
    /\ task' = [task EXCEPT ![i].st = "taken"]
    /\ IF task[i].res[1].raised
       THEN UNCHANGED <<collected, origin, fetched_products>>
       ELSE /\ collected' = Append(collected, DetailedRow(task[i].res[1].merged, Query))
            /\ origin' = Append(origin, <<page_number, i>>)
            /\ fetched_products' = fetched_products + 1
    /\ UNCHANGED qVars
    /\ UNCHANGED <<params, pc, page_number, page_bases, exc, result, requested,
                   answers, launched, fate, file, wCalls, gVars, mVars>>

\* lines 382-399, one pass of `for fut in as_completed(futures)`: a finished
\* future not yet yielded is yielded; its exception is printed and dropped,
\* its result becomes a row; on the limit the loop is left (break)
Collect(i) ==
    /\ pc = "collect"
    /\ i \in DOMAIN task /\ task[i].st = "done"
    /\ task' = [task EXCEPT ![i].st = "taken"]
    /\ IF task[i].res[1].raised
       THEN UNCHANGED <<collected, origin, fetched_products, pc>>
       ELSE /\ collected' = Append(collected, DetailedRow(task[i].res[1].merged, Query))
            /\ origin' = Append(origin, <<page_number, i>>)
            /\ fetched_products' = fetched_products + 1
            /\ pc' = IF LimitReached(max_products, fetched_products + 1)
                     THEN "drain" ELSE "collect"
    /\ UNCHANGED qVars
    /\ UNCHANGED <<params, page_number, page_bases, exc, result, requested,
                   answers, launched, fate, file, wCalls, gVars, mVars>>

\* the variant of the pool whose `with` block does not wait on exit
\* (shutdown(wait=False)): after break the page is left at once
PageEnd_NoWait ==
    /\ \/ pc = "collect" /\ \A i \in DOMAIN task : task[i].st = "taken"
       \/ pc = "drain"
    /\ AfterPage(fetched_products)
    /\ task' = <<>> /\ page_bases' = <<>>
    /\ UNCHANGED qVars
    /\ UNCHANGED <<params, fetched_products, collected, exc, result, hVars,
                   file, wCalls, gVars, mVars>>

\* the `with` block is left: as_completed is exhausted, or the loop was left
\* by break and executor.shutdown(wait=True) has waited for every work item;
\* then lines 418-423
PageEnd ==
    /\ \/ pc = "collect" /\ \A i \in DOMAIN task : task[i].st = "taken"
       \/ pc = "drain" /\ \A i \in DOMAIN task : task[i].st \in {"done", "taken"}
    /\ AfterPage(fetched_products)
    /\ task' = <<>> /\ page_bases' = <<>>
    /\ UNCHANGED qVars
    /\ UNCHANGED <<params, fetched_products, collected, exc, result, hVars,
                   file, wCalls, gVars, mVars>>

\* lines 425-437: the rows are written when there are any, and counted
Finish ==
    /\ pc = "finish"
    /\ IF collected # <<>>
       THEN LET r == write_csv(file, collected, append)
            IN /\ file' = r.file
               /\ wCalls' = Append(wCalls, [rows |-> collected, append |-> append,
                                            exc |-> r.exc])
               /\ IF r.exc # "none"
                  THEN pc' = "raised" /\ exc' = r.exc /\ result' = result
                  ELSE pc' = "done" /\ exc' = exc /\ result' = Len(collected)
       ELSE /\ pc' = "done" /\ result' = Len(collected)
            /\ UNCHANGED <<file, wCalls, exc>>
    /\ UNCHANGED qVars
    /\ UNCHANGED <<params, page_number, fetched_products, collected, page_bases,
                   task, hVars, gVars, mVars>>

Next ==
    \/ Validate
    \/ PagesDone
    \/ \E a \in PageAnswers : PageFetchFails(a)
    \/ \E a \in PageAnswers : PageEmpty(a)
    \/ \E a \in PageAnswers : PagePlain(a)
    \/ \E a \in PageAnswers : PageDetailed(a)
    \/ \E a \in PageAnswers : ExecutorRejected(a)
    \/ \E i \in 1 .. MaxItems : TaskStart(i)
    \/ \E i \in 1 .. MaxItems, o \in CrawlOutcomes : TaskFinish(i, o)
    \/ \E i \in 1 .. MaxItems : Collect(i)
    \/ PageEnd
    \/ Finish

Spec == CrawlInit /\ [][Next]_vars

\* one crawl in which every step that can be taken is taken in the end: the
\* orchestrating thread and the workers are scheduled, session.get has a
\* timeout (lines 236 and 361), so every fetch returns or fails. The pool has
\* no worker or MaxConcurrency workers: a worker need not take a work item at
\* once, so the runs of a smaller pool are among those of the larger one.
\* `append` is read by the final write only (line 432), a single step
\* whatever its value; the calls here overwrite.
FairInit == CrawlInit /\ concurrency \in {0, MaxConcurrency} /\ ~append
SpecFair == FairInit /\ [][Next]_vars /\ WF_vars(Next)

\* ------------- specification: non-detailed crawls one after the other on one
\* output path, as the search handler of app.py runs them (detailed=False)
RunsInit == CrawlInit /\ ~detailed

\* the call is over (returned or raised); the next one starts with arguments
\* of its own and finds the file the earlier calls left
NextCall ==
    /\ pc \in {"done", "raised"}
    /\ run < MaxRuns
    /\ run' = run + 1
    /\ pc' = "start"
    /\ pages' \in -1 .. MaxPages
    /\ max_products' \in 0 .. MaxProducts
    /\ append' \in BOOLEAN
    /\ page_number' = 1 /\ fetched_products' = 0 /\ collected' = <<>>
    /\ exc' = "none" /\ result' = -1
    /\ requested' = <<>> /\ answers' = <<>> /\ origin' = <<>>
    /\ UNCHANGED qVars
    /\ UNCHANGED <<detailed, concurrency, page_bases, task, launched, fate,
                   file, wCalls, gVars, mVars>>

RunsNext ==
    \/ Validate
    \/ PagesDone
    \/ \E a \in PageAnswers : PageFetchFails(a)
    \/ \E a \in PageAnswers : PageEmpty(a)
    \/ \E a \in PageAnswers : PagePlain(a)
    \/ Finish
    \/ NextCall

SpecRuns == RunsInit /\ [][RunsNext]_vars

\* --------------------------------- specification: one call of search_products
\* bounds: rows in the frame passed in, and the largest top_n asked for
MaxFrame == 3
MaxTopN == 1

\* product names as the crawler stores them
GalaxyA54 ==
    <<"S", "a", "m", "s", "u", "n", "g", " ", "G", "a", "l", "a", "x", "y",
      " ", "A", "5", "4", " ", "1", "2", "8", "G", "B">>
IPhone13 ==
    <<"i", "P", "h", "o", "n", "e", " ", "1", "3">>
GalaxyBuds ==
    <<"G", "a", "l", "a", "x", "y", " ", "B", "u", "d", "s">>
NikeShoes ==
    <<"N", "i", "k", "e", " ", "S", "h", "o", "e", "s">>
AppleAirPods ==
    <<"A", "p", "p", "l", "e", " ", "A", "i", "r", "P", "o", "d", "s">>
Samsung ==
    <<"s", "a", "m", "s", "u", "n", "g">>

\* the rows a frame is drawn from: a phone, a dearer phone with the same
\* rating, an accessory named after a phone, a product of another type, one
\* whose rating is still the page's text, a phone without a price, an
\* accessory without a rating
Catalogue ==
    {[product_name |-> GalaxyA54, price |-> 9500, rating |-> 45],
     [product_name |-> IPhone13, price |-> 25000, rating |-> 45],
     [product_name |-> GalaxyBuds, price |-> 9500, rating |-> 40],
     [product_name |-> NikeShoes, price |-> 10000, rating |-> 45],
     [product_name |-> NikeShoes, price |-> 10000, rating |-> RatingText],
     [product_name |-> IPhone13, price |-> NaN, rating |-> 40],
     [product_name |-> AppleAirPods, price |-> 9500, rating |-> NaN]}

RECURSIVE FramesUpTo(_)
FramesUpTo(n) ==
    IF n = 0 THEN {<<>>}
    ELSE LET shorter == FramesUpTo(n - 1)
         IN shorter \cup {Append(f, r) : f \in shorter, r \in Catalogue}

\* facets a search passes in. features [] is what extract_attributes puts
\* under the key, a dict is what relevance_score reads from it
RankAttrs ==
    [product : {"None", "phone", "shoes"},
     budget : {None, 10000},
     brand : {<<>>, Samsung},
     price_range : {[max |-> None, min |-> None],
                    [max |-> 10000, min |-> None],
                    [max |-> None, min |-> 10000]},
     intents : {{}},
     features : {[kind |-> "dict", values |-> <<>>],
                 [kind |-> "list", values |-> <<>>]}]

RankInit ==
    /\ sPc = "call"
    /\ df \in FramesUpTo(MaxFrame)
    /\ attrs \in RankAttrs
    /\ top_n \in 1 .. MaxTopN
    /\ ranked = NoFrame /\ final_results = Unset /\ sExc = "none"
    /\ score = <<>>
    /\ GIdle /\ MIdle /\ WIdle /\ CIdle /\ EIdle /\ PIdle

\* what search_products(df, attrs, top_n) can produce: [exc, result, returns].
\* The body ends after the sort: there is no return statement and top_n is
\* not read, so a call that does not raise returns None. With no row left,
\* apply calls relevance_score once on an all-NaN row to learn the result's
\* shape and swallows its exception; when that call raises (features a
\* list) the score column is assigned a frame, which pandas either accepts
\* or rejects with ValueError depending on its version.
search_products(frame, at, n) ==
    LET rows == Filtered(frame, at)
        e == ApplyExc(rows, at)
        done(r) == [exc |-> "none", result |-> Frame(r), returns |-> ReturnedNone]
        raised(x) == [exc |-> x, result |-> NoFrame, returns |-> Unset]
    IN IF rows = <<>>
       THEN IF at.features.kind = "list"
            THEN {done(<<>>), raised("ValueError")}
            ELSE {done(<<>>)}
       ELSE IF e # "none" THEN {raised(e)}
       ELSE {done(r) : r \in Sortings(Scored(rows, at))}

\* the call at app.py 291 / apps.py 54: final_results = search_products(...)
SearchProducts ==
    /\ sPc = "call"
    /\ \E out \in search_products(df, attrs, top_n) :
        /\ sExc' = out.exc
        /\ ranked' = out.result
        /\ final_results' = out.returns
        /\ sPc' = IF out.exc = "none" THEN "done" ELSE "raised"
    /\ UNCHANGED <<df, attrs, top_n, score>>
    /\ UNCHANGED <<gVars, mVars, wVars, cVars, eVars, pVars>>

SpecRank == RankInit /\ [][SearchProducts]_vars

\* --------------------------------- specification: one call of relevance_score
\* feature values as extract_features reads them from a query
Storage128gb == <<"1", "2", "8", "g", "b">>
Network5g == <<"5", "g">>

\* the rows scored: a title, with and without a price (0 included), with and
\* without a rating, and with a rating that is still the page's text
ScoreRows ==
    [product_name : {GalaxyA54, GalaxyBuds},
     price : {NaN, 0, 9500, 10000, 25000},
     rating : {NaN, 0, 45, RatingText}]

ScoreAttrs ==
    [product : {"None"},
     budget : {None},
     brand : {<<>>, Samsung},
     price_range : {[max |-> None, min |-> None],
                    [max |-> 10000, min |-> None],
                    [max |-> None, min |-> 10000],
                    [max |-> 10000, min |-> 9500]},
     intents : SUBSET {"cheap", "quality", "around_price"},
     features : {[kind |-> "dict", values |-> <<>>],
                 [kind |-> "dict", values |-> <<Storage128gb>>],
                 [kind |-> "dict", values |-> <<Storage128gb, Network5g>>],
                 [kind |-> "list", values |-> <<>>]}]

ScoreInit ==
    /\ sPc = "call"
    /\ df \in {<<r>> : r \in ScoreRows}
    /\ attrs \in ScoreAttrs
    /\ score = <<>>
    /\ top_n = 0 /\ ranked = NoFrame /\ final_results = Unset /\ sExc = "none"
    /\ GIdle /\ MIdle /\ WIdle /\ CIdle /\ EIdle /\ PIdle

\* the lambda of line 110 on one row
Score ==
    /\ sPc = "call"
    /\ score' = <<relevance_score(df[1], attrs)>>
    /\ sPc' = IF relevance_score(df[1], attrs).exc = "none" THEN "done"
              ELSE "raised"
    /\ UNCHANGED <<df, attrs, top_n, ranked, final_results, sExc>>
    /\ UNCHANGED <<gVars, mVars, wVars, cVars, eVars, pVars>>

SpecScore == ScoreInit /\ [][Score]_vars

\* ------------------------------ specification: one call of extract_attributes
\* bound: tokens in a query
MaxTokens == 3

\* the tokens a query is made of: numbers on both sides of 70, a second
\* number of each class, a number in Arabic-Indic digits, a digit character
\* that is no decimal digit, a colour, a brand in Latin and in Arabic
\* letters, a product word
Vocabulary ==
    {<<"7", "0">>, <<"7", "1">>, <<"4", "2">>, <<"1", "5", "0", "0">>,
     <<"ar:digit_seven", "ar:digit_one">>,
     <<"superscript_two">>,
     <<"b", "l", "a", "c", "k">>,
     <<"s", "a", "m", "s", "u", "n", "g">>,
     <<"ar:seen", "ar:alef", "ar:meem", "ar:seen", "ar:waw", "ar:noon", "ar:jeem">>,
     <<"s", "h", "o", "e", "s">>}

RECURSIVE TokensUpTo(_)
TokensUpTo(n) ==
    IF n = 0 THEN {<<>>}
    ELSE LET shorter == TokensUpTo(n - 1)
         IN shorter \cup {Append(q, t) : q \in shorter, t \in Vocabulary}

ExtractInit ==
    /\ ePc = "call"
    /\ tokens \in TokensUpTo(MaxTokens)
    /\ lang \in {"ar", "en"}
    /\ extracted = <<>> /\ eExc = "none"
    /\ GIdle /\ MIdle /\ WIdle /\ CIdle /\ SIdle /\ PIdle

\* attrs = extract_attributes(tokens, lang)
ExtractAttributes ==
    /\ ePc = "call"
    /\ LET out == extract_attributes(tokens, lang)
       IN /\ eExc' = out.exc
          /\ extracted' = out.value
          /\ ePc' = IF out.exc = "none" THEN "done" ELSE "raised"
    /\ UNCHANGED <<tokens, lang, gVars, mVars, wVars, cVars, sVars, pVars>>

SpecExtract == ExtractInit /\ [][ExtractAttributes]_vars

\* --------------------------- specification: the price cell through app.py
\* bound: characters in the text of a price cell
MaxPriceChars == 3

\* characters of a price as the page shows it: digits, the thousands
\* separator, the decimal point, a letter of a currency word
PriceAlphabet == {"0", "1", "5", ",", ".", "E"}

RECURSIVE TextsUpTo(_)
TextsUpTo(n) ==
    IF n = 0 THEN {<<>>}
    ELSE LET shorter == TextsUpTo(n - 1)
         IN shorter \cup {Append(x, ch) : x \in shorter, ch \in PriceAlphabet}

\* what read_csv leaves in the cell: the text, or a number already when the
\* whole column reads as numbers, or a missing value for an empty field
RawCells ==
    {PriceStr(x) : x \in TextsUpTo(MaxPriceChars) \ {<<>>}}
    \cup {PriceInt(0), PriceInt(150), PriceFloat(1050), PriceFloat(15000),
          Missing}

PriceInit ==
    /\ pPc = "raw"
    /\ cell \in {<<c>> : c \in RawCells}
    /\ GIdle /\ MIdle /\ WIdle /\ CIdle /\ SIdle /\ EIdle

\* app.py 265-266: apply(clean_price_amazon), then dropna
CleanAmazon ==
    /\ pPc = "raw"
    /\ cell' = Append(cell, clean_price_amazon(cell[1]))
    /\ pPc' = IF clean_price_amazon(cell[1]) = Missing THEN "dropped"
             ELSE "amazon"
    /\ UNCHANGED <<gVars, mVars, wVars, cVars, sVars, eVars>>

\* app.py 278: clean_price_column, which ends with dropna
CleanColumn ==
    /\ pPc = "amazon"
    /\ cell' = Append(cell, clean_price_column(cell[2]))
    /\ pPc' = IF clean_price_column(cell[2]) = Missing THEN "dropped"
             ELSE "column"
    /\ UNCHANGED <<gVars, mVars, wVars, cVars, sVars, eVars>>

PriceNext == CleanAmazon \/ CleanColumn
SpecPrice == PriceInit /\ [][PriceNext]_vars

\* ========================================================================
\* Properties
\* ========================================================================

\* the statuses the fetch client's contract calls transient
TransientStatuses == {429, 500, 502, 503, 504}
Transient(r) == r.conn \/ r.status \in TransientStatuses

\* C4: every row built from a merge follows the field precedence: the detail
\* page's value when it is present and non-empty, else the listing's value
\* (title, price, rating, image; description and specs have no listing value,
\* so they fall back to empty); without a detail page the listing is kept.
Precedence(d, l) == IF d # "" THEN d ELSE l
C4_FieldPrecedence ==
    mRow # <<>> =>
        LET row == mRow[1]
            d == IF mBase.product_link # NoLink /\ mOutcome.kind = "ok"
                 THEN mOutcome.details ELSE BlankDetails
        IN /\ row.title = Precedence(d.title_full, mBase.title)
           /\ row.price = Precedence(d.price_full, mBase.price)
           /\ row.rating = Precedence(d.rating_full, mBase.rating)
           /\ row.image = Precedence(d.image_primary, mBase.image_url)
           /\ row.description = Precedence(d.description, "")
           /\ row.product_info_json = d.product_info_json

\* C8 (as claimed): one GET makes at most 3 attempts in total, a further
\* attempt follows only a transient status or a connection-level failure, and
\* a non-retryable status ends the GET after the first attempt as a failure.
C8_AtMostThreeAttempts ==
    /\ Len(gLog) <= 3
    /\ \A k \in 1 .. Len(gLog) - 1 : Transient(gLog[k])
    /\ (gLog # <<>> /\ ~Transient(gLog[1]) /\ gLog[1].status # 200)
           => Len(gLog) = 1 /\ gState = "returned" /\ GetKind = "status"

\* C8 (amended): one GET makes at most 4 attempts in total (the first and up
\* to 3 retries), a further attempt follows only a transient status or a
\* connection-level failure, and a non-retryable status ends the GET after the
\* first attempt as a failure.
C8_AtMostFourAttempts ==
    /\ Len(gLog) <= 4
    /\ \A k \in 1 .. Len(gLog) - 1 : Transient(gLog[k])
    /\ (gLog # <<>> /\ ~Transient(gLog[1]) /\ gLog[1].status # 200)
           => Len(gLog) = 1 /\ gState = "returned" /\ GetKind = "status"

\* the GET gave up after three retries of a transient failure
C8_Witness ==
    /\ gState = "raised" /\ Len(gLog) = 4
    /\ \A k \in 1 .. 4 : Transient(gLog[k])

\* C9: after any sequence of write_csv calls on one path the file holds
\* exactly one header row, and it is the first row.
C9_OneHeaderRowFirst ==
    wCalls # <<>> =>
        /\ file.exists
        /\ file.rows # <<>> /\ file.rows[1] = Header
        /\ Cardinality({k \in 1 .. Len(file.rows) : file.rows[k] = Header}) = 1

\* ---- the crawl
LastAnswer == answers[Len(answers)]
LastPage == requested[Len(requested)].page
RowsOf(id) == {k \in 1 .. Len(origin) : origin[k] = id}
IsSuffix(t, u) == Len(t) <= Len(u) /\ SubSeq(u, Len(u) - Len(t) + 1, Len(u)) = t

\* C1: with max_products = M > 0 the crawl collects, writes and returns at
\* most M rows, in detailed and non-detailed mode and whatever the order in
\* which the detail tasks finish, and no search page is requested once M rows
\* are collected.
C1_AtMostMaxProducts ==
    max_products > 0 =>
        /\ Len(collected) <= max_products
        /\ result <= max_products
        /\ \A w \in 1 .. Len(wCalls) : Len(wCalls[w].rows) <= max_products
        /\ \A k \in 1 .. Len(requested) : requested[k].had < max_products

\* a detailed crawl returned M rows although more tasks had been launched
C1_Witness ==
    /\ pc = "done" /\ detailed /\ max_products > 0
    /\ result = max_products
    /\ Cardinality(launched) > max_products
    /\ \A f \in fate : ~f.raised

\* C2: when the fetch of search page n fails (exception or a status other
\* than 200) the loop ends without raising to the caller, no later page is
\* requested, and the rows of pages 1..n-1 are written and counted in the
\* returned value.
C2_PageFailureKeepsRecords ==
    (answers # <<>> /\ LastAnswer \in {"exception", "status"}) =>
        /\ pc \in {"finish", "done"} /\ exc = "none"
        /\ \A k \in 1 .. Len(origin) : origin[k][1] < LastPage
        /\ pc = "done" =>
              /\ result = Len(collected)
              /\ collected # <<>> => file.exists /\ IsSuffix(collected, file.rows)

\* C3: when a search page parses into zero listings pagination ends at once:
\* no later page is requested, no detail task is started for that page, and
\* the crawl returns exactly the rows of the earlier pages.
C3_EmptyPageEndsPagination ==
    (answers # <<>> /\ LastAnswer = "empty") =>
        /\ pc \in {"finish", "done"} /\ exc = "none"
        /\ \A id \in launched : id[1] < LastPage
        /\ \A k \in 1 .. Len(origin) : origin[k][1] < LastPage
        /\ pc = "done" => result = Len(collected)

\* the row a listing yields when nothing could be read from its detail page
DegradedRow(base) ==
    [title |-> base.title, price |-> base.price, rating |-> base.rating,
     image |-> base.image_url, product_link |-> base.product_link,
     description |-> "", product_info_json |-> "{}", search_query |-> Query]

\* the collector has taken the result of the task, or left its page without
\* having reached max_products
Consumed(id) ==
    \/ id[1] < page_number
    \/ /\ pc \in {"collect", "drain"} /\ id[1] = page_number
       /\ task[id[2]].st = "taken"

\* C5: in a detailed crawl a listing whose detail fetch fails (exception or
\* status other than 200) or that has no usable detail link still yields
\* exactly one row when the collector takes its result (never more than
\* one), and the row carries the listing's title, price, rating, image and
\* link unchanged with an empty description and an empty specs map.
C5_FailedDetailKeepsListing ==
    \A f \in fate :
        f.kind \in {"status", "exception", "nolink"} =>
            /\ Cardinality(RowsOf(f.id)) <= 1
            /\ Consumed(f.id) => Cardinality(RowsOf(f.id)) = 1
            /\ \A k \in RowsOf(f.id) : collected[k] = DegradedRow(f.base)

\* a crawl returned rows for a listing whose fetch failed and for one
\* without a link
C5_Witness ==
    /\ pc = "done"
    /\ \E f, g \in fate :
          /\ f.kind \in {"status", "exception"} /\ g.kind = "nolink"
          /\ RowsOf(f.id) # {} /\ RowsOf(g.id) # {}

\* C6: an exception raised inside one detail task never aborts the crawl:
\* it does not reach the caller, the results of the sibling tasks of its page
\* are collected and the page loop goes on to the next page (both as far as
\* max_products lets the collector go), under every interleaving.
C6_TaskErrorContained ==
    /\ exc # "TaskError"
    /\ \A f \in fate :
          f.raised =>
              /\ RowsOf(f.id) = {}
              /\ \A g \in fate :
                    (g.id[1] = f.id[1] /\ ~g.raised /\ Consumed(g.id))
                        => Cardinality(RowsOf(g.id)) = 1
              /\ (pc \in {"finish", "done", "raised"}
                  /\ ~LimitReached(max_products, fetched_products))
                     => page_number > f.id[1]

\* a task raised, its sibling's row was collected and a later page requested
C6_Witness ==
    \E f, g \in fate :
        /\ f.raised /\ ~g.raised /\ g.id[1] = f.id[1]
        /\ RowsOf(g.id) # {}
        /\ requested # <<>> /\ LastPage > f.id[1]
        /\ pc = "done"

\* C7: at every moment of a detailed crawl at most `concurrency` detail
\* tasks execute at the same time, however many listings the page holds.
C7_BoundedWorkers == Cardinality(Running) <= concurrency

\* every worker of the pool is busy while a listing of the page still waits
C7_Witness ==
    /\ detailed /\ Len(page_bases) > concurrency
    /\ Cardinality(Running) = concurrency
    /\ \E i \in DOMAIN task : task[i].st = "queued"

\* C10: after a crawl in overwrite mode the file holds no row of an earlier
\* crawl: it is the header followed by exactly the rows of this run, also
\* when this run collected no row.
C10_OverwriteLeavesOnlyThisRun ==
    (pc = "done" /\ ~append) =>
        /\ file.exists
        /\ file.rows = <<Header>> \o collected

\* ------------------------------------------------------------ the ranking
\* the rows that survive the filters, scored, in the one order that is
\* descending by score with rows of equal score in input order
StableRanking ==
    LET rows == Scored(Filtered(df, attrs), attrs)
    IN CHOOSE r \in Sortings(rows) :
           \A i, j \in DOMAIN r :
               (i < j /\ r[i].score = r[j].score) => r[i].index < r[j].index
FirstN(rows, n) == SubSeq(rows, 1, IF Len(rows) < n THEN Len(rows) ELSE n)

\* C11: a call of search_products that ends without an exception gives its
\* caller the surviving rows in descending order of score, rows of equal
\* score in input order, cut to the top_n highest.
C11_ReturnsTopRanked ==
    sPc = "done" =>
        final_results = [kind |-> "frame", rows |-> FirstN(StableRanking, top_n)]

\* rows of the frame passed in that the call's ranking no longer holds
Kept == {ranked.rows[i].index : i \in DOMAIN ranked.rows}
Dropped == DOMAIN df \ Kept

\* C12: with a budget B in the facets, every row of the ranking that
\* search_products builds, and every row its caller receives, has a price
\* that is at most B or has no price; no row priced above B is among them.
C12_WithinBudget ==
    (sPc = "done" /\ attrs.budget # None) =>
        \A r \in {ranked.rows[i] : i \in DOMAIN ranked.rows}
                 \cup {final_results.rows[i] : i \in DOMAIN final_results.rows} :
            r.price = NaN \/ r.price <= attrs.budget

\* a call with a budget that kept a row and dropped a dearer one
C12_Witness ==
    /\ sPc = "done" /\ attrs.budget # None
    /\ Kept # {}
    /\ \E i \in Dropped : df[i].price # NaN /\ df[i].price > attrs.budget

\* rows that pass the filters that do not look at the price
PassOther == ByBrand(ByProductType(Lowered(df), attrs), attrs)
\* the facets with everything that reads the price taken out
WithoutPrice(at) ==
    [at EXCEPT !.price_range = [max |-> None, min |-> None],
               !.intents = @ \ {"cheap", "around_price"}]

\* C13: a row without a price is never removed by the budget or price_range
\* filter, its score has no price-based term, it stays in the ranking, and
\* a frame that holds such a row is ranked without an exception.
C13_AbsentPriceKept ==
    /\ (\E i \in DOMAIN df : df[i].price = NaN) => sPc # "raised"
    /\ sPc = "done" =>
        \A k \in DOMAIN PassOther :
            PassOther[k].price = NaN =>
                \E i \in DOMAIN ranked.rows :
                    /\ ranked.rows[i].index = PassOther[k].index
                    /\ ranked.rows[i].score
                         = relevance_score(PassOther[k], WithoutPrice(attrs)).score

\* rows that pass the product-type filter, the exclusion words and the budget
PassFirst == ByBudget(ByProductType(Lowered(df), attrs), attrs)
Indices(rows) == {rows[i].index : i \in DOMAIN rows}
InRange(r) ==
    /\ attrs.price_range.max # None => LessEq(r.price, attrs.price_range.max)
    /\ attrs.price_range.min # None => GreaterEq(r.price, attrs.price_range.min)
HasBrand(r) ==
    attrs.brand # <<>> => contains(r.product_name, lower(attrs.brand))

\* C14 as stated: a row that passes the product-type filter, the exclusion
\* words and the budget filter is in the ranking whatever price_range and
\* brand are.
C14_RangeAndBrandOnlyScore ==
    sPc = "done" => LET first == PassFirst IN Indices(first) \subseteq Kept

\* C14: of the rows that pass the product-type filter, the exclusion words and
\* the budget filter, the ranking holds exactly those whose price lies
\* within every price_range bound that is set and whose title contains
\* facets.brand when a brand is set: both are filters as well as score terms.
C14_RangeAndBrandFilter ==
    sPc = "done" =>
        LET first == PassFirst
            both == SelectSeq(first, LAMBDA r : InRange(r) /\ HasBrand(r))
        IN Kept = Indices(both)

\* a call that kept a row and removed another for its price_range alone
C14_Witness ==
    /\ sPc = "done" /\ Kept # {}
    /\ LET first == PassFirst
       IN \E k \in DOMAIN first :
            /\ first[k].index \notin Kept
            /\ ~InRange(first[k]) /\ HasBrand(first[k])

\* the keywords of a recognized category: the ranking's own list for phone,
\* the extractor's list for the others
CategoryKeywords(product) ==
    IF product = "phone" THEN PHONE_KEYWORDS ELSE PRODUCTS_MAP[product]
Recognized == DOMAIN PRODUCTS_MAP
PassLater(rows) == ByBrand(ByPriceRange(ByBudget(rows, attrs), attrs), attrs)

\* C15 as stated: with a recognized category in the facets, no row whose
\* title matches none of the category's keywords is in the ranking; with
\* another value no row is dropped on product type.
C15_EveryCategoryFilters ==
    sPc = "done" =>
        IF attrs.product \in Recognized
        THEN \A i \in DOMAIN ranked.rows :
                contains_any(ranked.rows[i].product_name,
                             CategoryKeywords(attrs.product))
        ELSE Kept = Indices(PassLater(Lowered(df)))

\* C15: with product phone, no row whose title contains none of
\* PHONE_KEYWORDS is in the ranking; with any other value of product,
\* recognized or not, no row is dropped on product type.
C15_OnlyPhoneFilters ==
    sPc = "done" =>
        IF attrs.product = "phone"
        THEN \A i \in DOMAIN ranked.rows :
                contains_any(ranked.rows[i].product_name, PHONE_KEYWORDS)
        ELSE Kept = Indices(PassLater(Lowered(df)))

\* a search for phones that kept a phone and dropped a row without a phone
\* keyword in its title
C15_Witness ==
    /\ sPc = "done" /\ attrs.product = "phone" /\ Kept # {}
    /\ \E i \in Dropped :
        /\ ~contains_any(lower(df[i].product_name), PHONE_KEYWORDS)
        /\ PassLater(Lowered(<<df[i]>>)) # <<>>

\* C16: in a search for phones, no row whose title contains one of the
\* exclusion words (buds, earbuds, airpods, headphone, earphone, earbud), in
\* any letter case, is in the ranking or reaches the caller, also when the
\* title contains a phone keyword.
C16_NoAccessories ==
    (sPc = "done" /\ attrs.product = "phone") =>
        /\ \A i \in Kept :
              ~contains_any(lower(df[i].product_name), EXCLUDE_KEYWORDS)
        /\ \A i \in DOMAIN final_results.rows :
              ~contains_any(lower(final_results.rows[i].product_name),
                            EXCLUDE_KEYWORDS)

\* a search for phones that kept a phone and dropped an accessory whose
\* title names a phone
C16_Witness ==
    /\ sPc = "done" /\ attrs.product = "phone" /\ Kept # {}
    /\ \E i \in Dropped :
        /\ contains_any(lower(df[i].product_name), PHONE_KEYWORDS)
        /\ contains_any(lower(df[i].product_name), EXCLUDE_KEYWORDS)
        /\ PassLater(Lowered(<<df[i]>>)) # <<>>

\* ---------------------------------------------------------------- the score
\* the terms of the scoring table for the row and facets scored, in
\* thousandths; a price or rating is known when the cell holds a number
KnownPrice == df[1].price # NaN
KnownRating == df[1].rating \notin {NaN, RatingText}
TableTerms ==
    LET title == lower(df[1].product_name)
        price == df[1].price
        rating == df[1].rating
        max == attrs.price_range.max
        min == attrs.price_range.min
    IN [brand |->
            IF attrs.brand # <<>> /\ contains(title, attrs.brand)
            THEN 30000 ELSE 0,
        ceiling |->
            IF max # None /\ KnownPrice /\ price <= max THEN 20000 ELSE 0,
        floor |->
            IF min # None /\ KnownPrice /\ price >= min THEN 10000 ELSE 0,
        around |->
            IF "around_price" \in attrs.intents /\ max # None /\ KnownPrice
            THEN Max0(10000 - 2 * Abs(price - max)) ELSE 0,
        cheap |->
            IF "cheap" \in attrs.intents /\ KnownPrice
            THEN Max0(20000 - price) ELSE 0,
        rating |->
            IF ~KnownRating THEN 0
            ELSE IF "quality" \in attrs.intents THEN 500 * rating
            ELSE 300 * rating,
        feature |->
            5000 * Cardinality({i \in DOMAIN attrs.features.values :
                        contains(title, attrs.features.values[i])})]
TableSum ==
    LET t == TableTerms
    IN t.brand + t.ceiling + t.floor + t.around + t.cheap + t.rating
       + t.feature

\* C17: the score relevance_score gives a row is the sum of the table's
\* terms, each of them at least 0 and 0 for an input that is absent; the
\* title "Samsung Galaxy A54 128GB" with brand samsung and feature 128gb
\* scores 35 plus its rating term.
C17_ScoreIsTableSum ==
    score # <<>> =>
        /\ score[1].exc = "none"
        /\ score[1].score = TableSum
        /\ score[1].score >= 0
        /\ (/\ df[1].product_name = GalaxyA54 /\ attrs.brand = Samsung
            /\ attrs.features.values = <<Storage128gb>>
            /\ attrs.price_range = [max |-> None, min |-> None]
            /\ attrs.intents \subseteq {"quality"})
           => score[1].score = 35000 + TableTerms.rating

\* ------------------------------------------------------- the facet extractor
\* the value of an all-digit token, and the first token of the query with a
\* value in a class (None when there is none)
IsNumber(t) == t # <<>> /\ \A i \in DOMAIN t : IsDecimal(t[i])
Small(t) == IsNumber(t) /\ DecimalValue(t) <= 70
Large(t) == IsNumber(t) /\ DecimalValue(t) > 70
FirstSmall ==
    IF \E i \in DOMAIN tokens : Small(tokens[i])
    THEN DecimalValue(tokens[CHOOSE i \in DOMAIN tokens :
            Small(tokens[i]) /\ \A j \in 1 .. i - 1 : ~Small(tokens[j])])
    ELSE None
FirstLarge ==
    IF \E i \in DOMAIN tokens : Large(tokens[i])
    THEN DecimalValue(tokens[CHOOSE i \in DOMAIN tokens :
            Large(tokens[i]) /\ \A j \in 1 .. i - 1 : ~Large(tokens[j])])
    ELSE None

FacetFields ==
    {"product", "color", "size", "budget", "brand", "price_range", "features",
     "intents"}

\* C19: every call of extract_attributes returns, whatever the tokens and the
\* language tag, and the dict returned holds every field of the facets, with
\* features a mapping from names to values.
C19_CompleteFacets ==
    ePc # "call" =>
        /\ ePc = "done"
        /\ FacetFields \subseteq DOMAIN extracted[1]
        /\ extracted[1].features.kind = "dict"

\* ------------------------------------------------------ the price normalizer
\* two cell values are the same price: both missing, or numbers that compare
\* equal (an int v and a float of 100 * v hundredths)
Hundredths(p) == IF p.kind = "int" THEN 100 * p.num ELSE p.num
SamePrice(a, b) ==
    IF a.kind = "NA" \/ b.kind = "NA" THEN a.kind = b.kind
    ELSE /\ a.kind # "str" /\ b.kind # "str"
         /\ Hundredths(a) = Hundredths(b)

\* C20: a price that clean_price_amazon has produced is returned unchanged
\* when clean_price_amazon is applied to it again, and is left unchanged by
\* the normalization that follows it in the pipeline, clean_price_column.
C20_Idempotent ==
    /\ Len(cell) >= 2 => SamePrice(clean_price_amazon(cell[2]), cell[2])
    /\ Len(cell) >= 3 => SamePrice(cell[3], cell[2])

\* ------------------------------------------------------ the page barrier
\* detail tasks that were submitted and have neither returned nor raised
Unfinished == {id \in launched : \A f \in fate : f.id # id}
\* the orchestrator is inside the `with` block of a page
InPage == pc \in {"collect", "drain"}

\* C21: pages are processed in order with a barrier between them: when the
\* orchestrator is outside the executor block of a page (it requests the next
\* search page, writes or has returned, also after max_products was reached
\* in the middle of the page) no detail task that was launched is still
\* unfinished, inside the block the unfinished tasks are those of the current
\* page only, and in the collected rows and in the file written from them
\* every row of page n precedes every row of page n+1, whatever the order in
\* which the tasks finish.
C21_PageBarrier ==
    /\ ~InPage => Unfinished = {}
    /\ \A id \in Unfinished : id[1] = page_number
    /\ \A k \in 1 .. Len(requested) : requested[k].page = k
    /\ Len(origin) = Len(collected)
    /\ \A i, j \in 1 .. Len(origin) : i < j => origin[i][1] <= origin[j][1]
    /\ \A w \in 1 .. Len(wCalls) :
          wCalls[w].exc = "none" =>
              /\ wCalls[w].rows = collected
              /\ IsSuffix(collected, file.rows)

\* a detailed crawl wrote rows of two pages; on the second page the later
\* listing finished first and max_products was reached with its row, so the
\* result of the earlier listing's task was never taken
C21_Witness ==
    /\ pc = "done" /\ detailed /\ max_products = 2
    /\ origin = << <<1, 1>>, <<2, 2>> >>
    /\ \E f \in fate : f.id = <<2, 1>> /\ ~f.raised
    /\ file.exists /\ IsSuffix(collected, file.rows)

\* --------------------------------------------------------- the page limit
\* the call is over: it returned or an exception left it
Ended == pc \in {"done", "raised"}
\* the while loop of the call has been left
LoopLeft == pc \in {"finish", "done", "raised"}

\* with pages = P >= 1 the search pages requested so far are pages 1, 2, ...
\* in this order and none is beyond P; with pages = 0 and max_products = 0
\* the loop is left only after an empty page or a failed page fetch (the
\* ValueError of a pool of no workers, concurrency <= 0, aborts the call
\* from inside the loop and is no stopping condition)
WithinPageLimit ==
    /\ pages >= 1 =>
          /\ Len(requested) <= pages
          /\ \A k \in 1 .. Len(requested) :
                requested[k].page = k /\ requested[k].page \in 1 .. pages
    /\ (pages = 0 /\ max_products = 0 /\ LoopLeft /\ exc # "ValueError") =>
          /\ answers # <<>>
          /\ LastAnswer \in {"empty", "exception", "status"}

\* C22: every crawl with pages = P >= 1 ends after requesting at most P search
\* pages (pages 1..P, never P+1), whatever the server answers, given that
\* every fetch returns or fails; with pages = 0 and max_products = 0 the
\* crawl stops only on an empty page or a failed page fetch.
C22_EndsWithinPageLimit ==
    /\ []WithinPageLimit
    /\ (pages >= 1) ~> Ended

\* a crawl with pages = 1 returned after one request, answered with a full
\* page, while the server had listings left for a second page
C22_Witness ==
    /\ pc = "done" /\ pages = 1 /\ max_products = 0
    /\ Len(requested) = 1 /\ LastAnswer = "ok"
    /\ Len(collected) = MaxItems /\ Served < MaxListings

====
